---- MODULE Spec2Model ----
(***************************************************************************)
(* Model of config_parser_v24.py: a configuration text (a sequence of      *)
(* "def NAME = value" assignments and bare values) is parsed with the      *)
(* grammar, transformed bottom-up by ConfigTransformer, turned into an XML *)
(* element tree by generate_xml_from_dict and printed by main.             *)
(*                                                                         *)
(* Text is modelled as sequences of one-character strings.  A Python int   *)
(* is modelled by its sign and its decimal digits (arbitrary precision).   *)
(***************************************************************************)
EXTENDS Integers, Sequences, FiniteSets, TLC

VARIABLES
    items,        \* the top-level items written in the input file
    pc,           \* position of main
    tree,         \* parse_tree (line 137)
    done,         \* children of the root already transformed (Transformer, bottom-up)
    constants,    \* ConfigTransformer.constants
    assignments,  \* ConfigTransformer.assignments
    result,       \* result_dict (line 139)
    xml_output,   \* xml_output (line 140): the element tree, none or one
    stdout,       \* what print(xml_output) wrote, none or one
    stderr,       \* the kind of message written to standard error, none or one
    exitcode      \* the process's exit code, -1 while running

vars == <<items, pc, tree, done, constants, assignments, result, xml_output,
          stdout, stderr, exitcode>>

------------------------------------------------------------------------------
(* Bounds of the model                                                     *)

MaxItems == 3     \* top-level items in an input
MaxDepth == 2     \* nesting depth of the arrays handed to the emitter alone
MaxLen == 2       \* entries of an array handed to the emitter alone

------------------------------------------------------------------------------
(* Text helpers                                                            *)

Digits == <<"0", "1", "2", "3", "4", "5", "6", "7", "8", "9">>
Upper == {"A", "B", "C"}
Lower == {"a", "b", "e", "i", "m", "t", "x"}

IsDigit(c) == \E d \in 1..Len(Digits) : Digits[d] = c
DigitOf(c) == (CHOOSE d \in 1..Len(Digits) : Digits[d] = c) - 1

NoneVal == [k |-> "none"]

RECURSIVE DecDigits(_)
\* the decimal digits of a natural number, most significant first
DecDigits(n) == IF n < 10 THEN <<n>> ELSE Append(DecDigits(n \div 10), n % 10)

RECURSIVE DigitChars(_)
DigitChars(ds) ==
    IF ds = <<>> THEN <<>> ELSE <<Digits[Head(ds) + 1]>> \o DigitChars(Tail(ds))

RECURSIVE StripZeros(_)
StripZeros(ds) ==
    IF Len(ds) > 1 /\ Head(ds) = 0 THEN StripZeros(Tail(ds)) ELSE ds

------------------------------------------------------------------------------
(* Python dict: insertion-ordered, d[k] = v overwrites in place            *)

DictHas(d, k) == \E i \in 1..Len(d) : d[i].key = k
DictGet(d, k) == d[CHOOSE i \in 1..Len(d) : d[i].key = k].val
DictSet(d, k, v) ==
    IF DictHas(d, k)
    THEN [i \in 1..Len(d) |-> IF d[i].key = k THEN [key |-> k, val |-> v] ELSE d[i]]
    ELSE Append(d, [key |-> k, val |-> v])
DictKeys(d) == [i \in 1..Len(d) |-> d[i].key]

------------------------------------------------------------------------------
(* Grammar (lines 11-42)                                                   *)

\* NAME: /[_A-Z][_a-zA-Z0-9]*/
IsNAME(tok) ==
    /\ Len(tok) >= 1
    /\ tok[1] = "_" \/ tok[1] \in Upper
    /\ \A i \in 2..Len(tok) : tok[i] = "_" \/ tok[i] \in Upper \/ tok[i] \in Lower \/ IsDigit(tok[i])

\* NUMBER: /[+-]?\d+/
IsNUMBER(tok) ==
    LET body == IF Len(tok) >= 1 /\ tok[1] \in {"+", "-"} THEN Tail(tok) ELSE tok
    IN  Len(body) >= 1 /\ \A i \in 1..Len(body) : IsDigit(body[i])

\* STRING_DOUBLE: /"[^"]*"/
IsSTRING_DOUBLE(tok) ==
    /\ Len(tok) >= 2
    /\ tok[1] = "\"" /\ tok[Len(tok)] = "\""
    /\ \A i \in 2..(Len(tok) - 1) : tok[i] # "\""

RECURSIVE IsValue(_)
\* ?value: number | string | array | const_expr;  array: "{" value ("," value)* "}"
IsValue(n) ==
    CASE n.t = "number" -> IsNUMBER(n.tok)
      [] n.t = "string" -> IsSTRING_DOUBLE(n.tok)
      [] n.t = "const_expr" -> IsNAME(n.name)
      [] n.t = "array" -> Len(n.items) >= 1 /\ \A i \in 1..Len(n.items) : IsValue(n.items[i])
      [] OTHER -> FALSE

\* assignment: "def" NAME "=" value -> assign_const
IsItem(it) ==
    IF it.t = "assign_const" THEN IsNAME(it.name) /\ IsValue(it.value) ELSE IsValue(it)

\* ?start: (assignment | value)*  -- "?" inlines a start node with exactly one child
Parse(its) == IF Len(its) = 1 THEN its[1] ELSE [t |-> "start", children |-> its]

Children(tr) == IF tr.t = "start" THEN tr.children ELSE <<tr>>

------------------------------------------------------------------------------
(* ConfigTransformer (lines 45-88)                                         *)

\* number (lines 81-82): int(token)
number(tok) ==
    LET neg == tok[1] = "-"
        body == IF tok[1] \in {"+", "-"} THEN Tail(tok) ELSE tok
        digs == StripZeros([i \in 1..Len(body) |-> DigitOf(body[i])])
    IN  [k |-> "int", neg |-> neg /\ digs # <<0>>, digs |-> digs]

\* string (lines 84-85): token[1:-1]
string(tok) == [k |-> "str", s |-> SubSeq(tok, 2, Len(tok) - 1)]

\* array (lines 87-88): list(items)
array(vals) == [k |-> "list", items |-> vals]

\* a resolve_const that yields an empty text for an unknown name
resolve_constDefault(name, consts) ==
    IF ~DictHas(consts, name)
    THEN [ok |-> TRUE, val |-> [k |-> "str", s |-> <<>>], err |-> <<>>]
    ELSE [ok |-> TRUE, val |-> DictGet(consts, name), err |-> <<>>]
\* resolve_const (lines 75-79)
resolve_const(name, consts) ==
    IF ~DictHas(consts, name)
    THEN [ok |-> FALSE, val |-> NoneVal, err |-> name]
    ELSE [ok |-> TRUE, val |-> DictGet(consts, name), err |-> <<>>]

RECURSIVE transform(_, _)
RECURSIVE transform_children(_, _, _)
\* Transformer._transform_children: left to right, the first exception aborts
transform_children(nodes, consts, acc) ==
    IF nodes = <<>> THEN [ok |-> TRUE, val |-> array(acc), err |-> <<>>]
    ELSE LET r == transform(Head(nodes), consts)
         IN  IF r.ok THEN transform_children(Tail(nodes), consts, Append(acc, r.val))
             ELSE r
\* Transformer.transform of a value subtree: children first, then the callback
transform(n, consts) ==
    CASE n.t = "number" -> [ok |-> TRUE, val |-> number(n.tok), err |-> <<>>]
      [] n.t = "string" -> [ok |-> TRUE, val |-> string(n.tok), err |-> <<>>]
      [] n.t = "const_expr" -> resolve_const(n.name, consts)
      [] n.t = "array" -> transform_children(n.items, consts, <<>>)

\* an assign_const that keeps the first value of a name
assign_const_storeOnce(table, name, value) ==
    IF DictHas(table, name) THEN table ELSE DictSet(table, name, value)
\* assign_const (lines 71-72): self.constants[name] = value, self.assignments[name] = value
assign_const_store(table, name, value) == DictSet(table, name, value)

\* assign_const (lines 69-73): the returned pair
assign_const(name, value) == [k |-> "tuple", name |-> name, val |-> value]

ItemKey(n) == <<"i", "t", "e", "m", "_">> \o DigitChars(DecDigits(n))

RECURSIVE start_loop(_, _, _)
\* a start whose dictionary keeps the first value of a declared name
start_loopKeepFirst(its, result_dict, unnamed_counter) ==
    IF its = <<>> THEN result_dict
    ELSE LET item == Head(its)
         IN  IF item.k = "tuple"
             THEN start_loop(Tail(its),
                             IF DictHas(result_dict, item.name) THEN result_dict
                             ELSE DictSet(result_dict, item.name, item.val),
                             unnamed_counter)
             ELSE start_loop(Tail(its),
                             DictSet(result_dict, ItemKey(unnamed_counter), item),
                             unnamed_counter + 1)
\* start (lines 52-67): the loop over the transformed items
\* (the branch of lines 60-61 tests for a Tree: a transformed item is never one)
start_loop(its, result_dict, unnamed_counter) ==
    IF its = <<>> THEN result_dict
    ELSE LET item == Head(its)
         IN  IF item.k = "tuple"
             THEN start_loop(Tail(its), DictSet(result_dict, item.name, item.val),
                             unnamed_counter)
             ELSE start_loop(Tail(its),
                             DictSet(result_dict, ItemKey(unnamed_counter), item),
                             unnamed_counter + 1)
start(its) == [k |-> "dict", entries |-> start_loop(its, <<>>, 0)]

------------------------------------------------------------------------------
(* generate_xml_from_dict (lines 91-115)                                   *)

RECURSIVE repr(_)
RECURSIVE repr_join(_)
repr_join(vs) ==
    IF vs = <<>> THEN <<>>
    ELSE IF Len(vs) = 1 THEN repr(vs[1])
    ELSE repr(vs[1]) \o <<",", " ">> \o repr_join(Tail(vs))
\* Python's repr() of an int, a str (no quote inside), a list, a 2-tuple
repr(v) ==
    CASE v.k = "int" -> (IF v.neg THEN <<"-">> ELSE <<>>) \o DigitChars(v.digs)
      [] v.k = "str" -> <<"'">> \o v.s \o <<"'">>
      [] v.k = "list" -> <<"[">> \o repr_join(v.items) \o <<"]">>
      [] v.k = "tuple" -> <<"(">> \o <<"'">> \o v.name \o <<"'">> \o <<",", " ">>
                          \o repr(v.val) \o <<")">>

\* str(data) (line 103)
str(v) == IF v.k = "str" THEN v.s ELSE repr(v)

Element(tag) == [tag |-> tag, text |-> <<>>, children |-> <<>>]
SubElement(parent, child) == [parent EXCEPT !.children = Append(@, child)]

ARRAY == <<"a", "r", "r", "a", "y">>
ITEM == <<"i", "t", "e", "m">>
CONFIG == <<"c", "o", "n", "f", "i", "g">>

RECURSIVE to_xml_recurse(_, _)
RECURSIVE to_xml_dict(_, _)
RECURSIVE to_xml_list(_, _)
\* lines 94-96
to_xml_dict(parent_element, entries) ==
    IF entries = <<>> THEN parent_element
    ELSE to_xml_dict(
             SubElement(parent_element,
                        to_xml_recurse(Element(Head(entries).key), Head(entries).val)),
             Tail(entries))
\* lines 99-101
to_xml_list(array_container, vals) ==
    IF vals = <<>> THEN array_container
    ELSE to_xml_list(
             SubElement(array_container, to_xml_recurse(Element(ITEM), Head(vals))),
             Tail(vals))
\* a _to_xml_recurse that hangs the items on the parent, without the array element
to_xml_recurseFlat(parent_element, data) ==
    CASE data.k = "dict" -> to_xml_dict(parent_element, data.entries)
      [] data.k = "list" -> to_xml_list(parent_element, data.items)
      [] OTHER -> [parent_element EXCEPT !.text = <<str(data)>>]
\* _to_xml_recurse (lines 92-103): the parent element after the call
to_xml_recurse(parent_element, data) ==
    CASE data.k = "dict" -> to_xml_dict(parent_element, data.entries)
      [] data.k = "list" ->
            SubElement(parent_element, to_xml_list(Element(ARRAY), data.items))
      [] OTHER -> [parent_element EXCEPT !.text = <<str(data)>>]

\* lines 105-106: the element tree; its serialisation to indented text (lines
\* 108-115) is left to the XML library and is not modelled
generate_xml_from_dict(data) == to_xml_recurse(Element(CONFIG), data)

------------------------------------------------------------------------------
(* Inputs                                                                  *)

NameA == <<"A">>
NameB == <<"B">>
NameItem0 == <<"i", "t", "e", "m", "_", "0">>     \* not a NAME: lower-case first

TokOne == <<"1">>
TokPlus == <<"+", "0", "2">>
\* 2^63, one above the largest 64-bit signed integer
TokBig == <<"9", "2", "2", "3", "3", "7", "2", "0", "3", "6",
            "8", "5", "4", "7", "7", "5", "8", "0", "8">>
TokStr == <<"\"", "x", "\"">>

NumNode(tok) == [t |-> "number", tok |-> tok]
StrNode(tok) == [t |-> "string", tok |-> tok]
RefNode(name) == [t |-> "const_expr", name |-> name]
ArrNode(ns) == [t |-> "array", items |-> ns]
DefNode(name, value) == [t |-> "assign_const", name |-> name, value |-> value]

\* the values an input may write: scalars, references, arrays (nested, with a
\* reference inside)
ValueNodes ==
    { NumNode(TokOne), NumNode(TokBig), StrNode(TokStr), RefNode(NameA), RefNode(NameB),
      ArrNode(<<NumNode(TokPlus), ArrNode(<<StrNode(TokStr)>>)>>),
      ArrNode(<<RefNode(NameA), NumNode(TokOne)>>) }

\* the values B is defined with
ValueNodesB ==
    { StrNode(TokStr), RefNode(NameA), ArrNode(<<RefNode(NameA), NumNode(TokOne)>>) }

RawItems ==
    {DefNode(NameA, v) : v \in ValueNodes}
    \cup {DefNode(NameB, v) : v \in ValueNodesB}
    \cup ValueNodes
    \cup {DefNode(NameItem0, NumNode(TokOne))}      \* rejected by the grammar

SeqsUpTo(S, n) == UNION {[1..m -> S] : m \in 0..n}

Inputs == SeqsUpTo(RawItems, MaxItems)

------------------------------------------------------------------------------
(* main (lines 118-151)                                                    *)

None == <<>>

Init ==
    /\ items \in Inputs
    /\ pc = "read"
    /\ tree = NoneVal
    /\ done = <<>>
    /\ constants = <<>>
    /\ assignments = <<>>
    /\ result = NoneVal
    /\ xml_output = None
    /\ stdout = None
    /\ stderr = None
    /\ exitcode = -1

Exit(msg) ==
    /\ stderr' = <<msg>>
    /\ exitcode' = 1
    /\ pc' = "exit"

\* lines 126-127: the file is read
ReadOk ==
    /\ pc = "read"
    /\ pc' = "parse"
    /\ UNCHANGED <<items, tree, done, constants, assignments, result, xml_output,
                   stdout, stderr, exitcode>>

\* lines 128-130: FileNotFoundError
ReadNotFound ==
    /\ pc = "read"
    /\ Exit("not found")
    /\ UNCHANGED <<items, tree, done, constants, assignments, result, xml_output, stdout>>

\* lines 131-133: any other error while reading
ReadError ==
    /\ pc = "read"
    /\ Exit("Error reading file")
    /\ UNCHANGED <<items, tree, done, constants, assignments, result, xml_output, stdout>>

\* lines 136-137: the text is in the grammar
ParseOk ==
    /\ pc = "parse"
    /\ \A i \in 1..Len(items) : IsItem(items[i])
    /\ tree' = Parse(items)
    /\ pc' = "transform"
    /\ UNCHANGED <<items, done, constants, assignments, result, xml_output,
                   stdout, stderr, exitcode>>

\* lines 143-145: UnexpectedInput
ParseFail ==
    /\ pc = "parse"
    /\ ~ \A i \in 1..Len(items) : IsItem(items[i])
    /\ Exit("Syntax error")
    /\ UNCHANGED <<items, tree, done, constants, assignments, result, xml_output, stdout>>

NextChild == Children(tree)[Len(done) + 1]

\* line 139: an assignment under the root is transformed: its value, then assign_const
TransformAssign ==
    /\ pc = "transform"
    /\ Len(done) < Len(Children(tree))
    /\ NextChild.t = "assign_const"
    /\ LET r == transform(NextChild.value, constants)
       IN  /\ r.ok
           /\ constants' = assign_const_store(constants, NextChild.name, r.val)
           /\ assignments' = assign_const_store(assignments, NextChild.name, r.val)
           /\ done' = Append(done, assign_const(NextChild.name, r.val))
    /\ UNCHANGED <<items, pc, tree, result, xml_output, stdout, stderr, exitcode>>

\* line 139: a bare value under the root is transformed
TransformBare ==
    /\ pc = "transform"
    /\ Len(done) < Len(Children(tree))
    /\ NextChild.t # "assign_const"
    /\ LET r == transform(NextChild, constants)
       IN  /\ r.ok
           /\ done' = Append(done, r.val)
    /\ UNCHANGED <<items, pc, tree, constants, assignments, result, xml_output,
                   stdout, stderr, exitcode>>

\* lines 78, 146-148: a callback raised, the transformer reports a VisitError
TransformError ==
    /\ pc = "transform"
    /\ Len(done) < Len(Children(tree))
    /\ LET n == IF NextChild.t = "assign_const" THEN NextChild.value ELSE NextChild
       IN  ~ transform(n, constants).ok
    /\ Exit("Runtime error")
    /\ UNCHANGED <<items, tree, done, constants, assignments, result, xml_output, stdout>>

\* line 139: the root is a start node, its callback builds the dictionary
CallStart ==
    /\ pc = "transform"
    /\ Len(done) = Len(Children(tree))
    /\ tree.t = "start"
    /\ result' = start(done)
    /\ pc' = "emit"
    /\ UNCHANGED <<items, tree, done, constants, assignments, xml_output,
                   stdout, stderr, exitcode>>

\* line 139: the root is the single item itself, transform returns what it became
InlinedRoot ==
    /\ pc = "transform"
    /\ Len(done) = Len(Children(tree))
    /\ tree.t # "start"
    /\ result' = done[1]
    /\ pc' = "emit"
    /\ UNCHANGED <<items, tree, done, constants, assignments, xml_output,
                   stdout, stderr, exitcode>>

\* lines 140-141: the XML is generated and printed, main returns
\* (no value of the inputs modelled here makes the emitter raise, so the handler of
\* lines 149-151 is not reached)
Emit ==
    /\ pc = "emit"
    /\ xml_output' = <<generate_xml_from_dict(result)>>
    /\ stdout' = xml_output'
    /\ exitcode' = 0
    /\ pc' = "exit"
    /\ UNCHANGED <<items, tree, done, constants, assignments, result, stderr>>

Next ==
    \/ ReadOk
    \/ ReadNotFound
    \/ ReadError
    \/ ParseOk
    \/ ParseFail
    \/ TransformAssign
    \/ TransformBare
    \/ TransformError
    \/ CallStart
    \/ InlinedRoot
    \/ Emit

Spec == Init /\ [][Next]_vars

------------------------------------------------------------------------------
(* The emitter alone: generate_xml_from_dict applied to any Document,      *)
(* empty arrays included (the grammar produces none).                      *)

ScalarValues == {number(TokOne), string(TokStr)}

RECURSIVE EmitValues(_)
\* scalars, and arrays of at most MaxLen entries nested at most d deep; an array
\* mixes the scalar 1 with one value of the level below
EmitValues(d) ==
    IF d = 0 THEN ScalarValues
    ELSE ScalarValues \cup
         { array(q) : q \in UNION { SeqsUpTo({number(TokOne), inner}, MaxLen) :
                                        inner \in EmitValues(d - 1) } }

Entry(key, val) == [key |-> key, val |-> val]

EmitDocs ==
    {<<>>}
    \cup { <<Entry(NameA, v)>> : v \in EmitValues(MaxDepth) }
    \cup { <<Entry(ItemKey(0), s), Entry(NameA, v)>> :
               s \in ScalarValues, v \in EmitValues(MaxDepth) }
    \cup { <<Entry(NameA, v), Entry(ItemKey(0), s)>> :
               s \in ScalarValues, v \in EmitValues(MaxDepth) }

InitEmit ==
    /\ items = <<>>
    /\ pc = "emit"
    /\ tree = NoneVal
    /\ done = <<>>
    /\ constants = <<>>
    /\ assignments = <<>>
    /\ result \in {[k |-> "dict", entries |-> d] : d \in EmitDocs}
    /\ xml_output = None
    /\ stdout = None
    /\ stderr = None
    /\ exitcode = -1

SpecEmit == InitEmit /\ [][Emit]_vars

------------------------------------------------------------------------------
(* What the input text says, read off the text alone                       *)

IsAssign(it) == it.t = "assign_const"
ValueOf(it) == IF IsAssign(it) THEN it.value ELSE it

\* the last definition of name written before item i; 0 when there is none
LastDefBefore(its, i, name) ==
    LET defs == {j \in 1..(i - 1) : IsAssign(its[j]) /\ its[j].name = name}
    IN  IF defs = {} THEN 0 ELSE CHOOSE j \in defs : \A l \in defs : l <= j

RECURSIVE RefsOf(_)
\* the names a value refers to
RefsOf(n) ==
    CASE n.t = "const_expr" -> {n.name}
      [] n.t = "array" -> UNION {RefsOf(n.items[i]) : i \in 1..Len(n.items)}
      [] OTHER -> {}

\* some reference has no definition written before it
HasUndefined(its) ==
    \E i \in 1..Len(its) : \E nm \in RefsOf(ValueOf(its[i])) : LastDefBefore(its, i, nm) = 0

RECURSIVE Denote(_, _, _)
\* the value of node n written in item i: a reference stands for the value of
\* the last definition written before item i
Denote(n, its, i) ==
    CASE n.t = "number" -> number(n.tok)
      [] n.t = "string" -> string(n.tok)
      [] n.t = "array" -> array([j \in 1..Len(n.items) |-> Denote(n.items[j], its, i)])
      [] n.t = "const_expr" ->
            LET j == LastDefBefore(its, i, n.name) IN Denote(its[j].value, its, j)

DeclaredNames(its) == {its[i].name : i \in {j \in 1..Len(its) : IsAssign(its[j])}}
BareCount(its, i) == Cardinality({j \in 1..i : ~IsAssign(its[j])})
LastDef(its, name) == LastDefBefore(its, Len(its) + 1, name)

Succeeded == pc = "exit" /\ exitcode = 0
Parsed == tree # NoneVal
ValOf(v) == IF v.k = "tuple" THEN v.val ELSE v
Entries(r) == IF r.k = "dict" THEN r.entries ELSE <<>>

------------------------------------------------------------------------------
(* C1: every const-reference resolves to the value of the most recent      *)
(* definition of its name written before the reference; a later            *)
(* redefinition does not change a value already resolved.                  *)
C1_ResolvedAtPointOfUse ==
    /\ \A i \in 1..Len(done) : ValOf(done[i]) = Denote(ValueOf(items[i]), items, i)
    /\ result.k = "dict" =>
         \A nm \in DeclaredNames(items) :
            /\ DictHas(result.entries, nm)
            /\ DictGet(result.entries, nm)
                 = Denote(items[LastDef(items, nm)].value, items, LastDef(items, nm))

\* def A = v1, def B = ?[A], A redefined with another value: B keeps v1
C1_Witness ==
    /\ Succeeded
    /\ Len(items) = 3
    /\ items[1] = DefNode(NameA, NumNode(TokOne))
    /\ items[2] = DefNode(NameB, RefNode(NameA))
    /\ items[3] = DefNode(NameA, StrNode(TokStr))
    /\ DictGet(result.entries, NameB) = number(TokOne)
    /\ DictGet(result.entries, NameA) = string(TokStr)

(* C2: a reference whose name has no definition written before it makes    *)
(* resolution fail; no Document and no XML output are produced.            *)
C2_UndefinedFails ==
    (Parsed /\ HasUndefined(items)) =>
        /\ result = NoneVal
        /\ xml_output = None
        /\ stdout = None
        /\ pc = "exit" => (exitcode = 1 /\ stderr = <<"Runtime error">>)

\* B is defined from A while A is only defined later
C2_Witness ==
    /\ pc = "exit"
    /\ Len(items) = 3
    /\ items[1] = NumNode(TokOne)
    /\ items[2] = DefNode(NameB, RefNode(NameA))
    /\ items[3] = DefNode(NameA, NumNode(TokOne))
    /\ stderr = <<"Runtime error">>
    /\ Len(done) = 1

(* C3: each bare top-level value is recorded in the Document under          *)
(* item_<n>, n counting the bare values before it, for any number of items *)
(* (one item included).                                                    *)
C3_BareValuesKeyed ==
    Succeeded =>
        /\ result.k = "dict"
        /\ \A i \in 1..Len(items) :
              ~IsAssign(items[i]) =>
                  /\ DictHas(result.entries, ItemKey(BareCount(items, i) - 1))
                  /\ DictGet(result.entries, ItemKey(BareCount(items, i) - 1)) = done[i]

RECURSIVE FirstOccurrences(_, _)
\* the names of a sequence of assignments, each once, in the order first declared
FirstOccurrences(its, seen) ==
    IF its = <<>> THEN <<>>
    ELSE IF Head(its).name \in seen THEN FirstOccurrences(Tail(its), seen)
    ELSE <<Head(its).name>> \o FirstOccurrences(Tail(its), seen \cup {Head(its).name})

(* C4: for an input of one or more scalar assignments the Document is an   *)
(* ordered mapping whose keys are the declared names in declaration order, *)
(* each mapped to its resolved value.                                      *)
C4_ScalarAssignments ==
    ( /\ Succeeded
      /\ Len(items) >= 1
      /\ \A i \in 1..Len(items) :
            IsAssign(items[i]) /\ items[i].value.t \in {"number", "string"} )
    => /\ result.k = "dict"
       /\ DictKeys(Entries(result)) = FirstOccurrences(items, {})
       /\ \A i \in 1..Len(Entries(result)) :
             result.entries[i].val = DictGet(constants, result.entries[i].key)

RECURSIVE LeqDigits(_, _)
\* a <= b for two digit sequences of the same length
LeqDigits(a, b) ==
    IF a = <<>> THEN TRUE
    ELSE IF Head(a) # Head(b) THEN Head(a) < Head(b)
    ELSE LeqDigits(Tail(a), Tail(b))

\* the digits of 2^63 - 1 and of 2^63
MaxInt64 == <<9, 2, 2, 3, 3, 7, 2, 0, 3, 6, 8, 5, 4, 7, 7, 5, 8, 0, 7>>
MinInt64 == <<9, 2, 2, 3, 3, 7, 2, 0, 3, 6, 8, 5, 4, 7, 7, 5, 8, 0, 8>>

InInt64(v) ==
    LET lim == IF v.neg THEN MinInt64 ELSE MaxInt64
    IN  Len(v.digs) < Len(lim) \/ (Len(v.digs) = Len(lim) /\ LeqDigits(v.digs, lim))

RECURSIVE NumbersInRange(_)
NumbersInRange(v) ==
    CASE v.k = "int" -> InInt64(v)
      [] v.k = "list" -> \A i \in 1..Len(v.items) : NumbersInRange(v.items[i])
      [] v.k = "tuple" -> NumbersInRange(v.val)
      [] v.k = "dict" -> \A i \in 1..Len(v.entries) : NumbersInRange(v.entries[i].val)
      [] OTHER -> TRUE

RECURSIVE LiteralsInRange(_)
LiteralsInRange(n) ==
    CASE n.t = "number" -> InInt64(number(n.tok))
      [] n.t = "array" -> \A i \in 1..Len(n.items) : LiteralsInRange(n.items[i])
      [] OTHER -> TRUE

HasOutOfRange(its) == \E i \in 1..Len(its) : ~LiteralsInRange(ValueOf(its[i]))

(* C5: every failure path (file missing or unreadable, lexical or syntax   *)
(* error, undefined constant, number out of range) ends with a non-zero    *)
(* exit code and nothing on standard output; XML is written, followed by   *)
(* exit code 0, only when every stage has succeeded.                       *)
C5_FailuresExitNonZero ==
    pc = "exit" =>
        LET failed == \/ stderr # None
                      \/ Parsed /\ HasUndefined(items)
                      \/ Parsed /\ HasOutOfRange(items)
        IN  /\ failed => (exitcode # 0 /\ stdout = None)
            /\ stdout # None => (exitcode = 0 /\ ~failed)

(* C6: a NUMBER literal outside [-2^63, 2^63-1] makes resolution fail      *)
(* instead of producing a Number; every Number of a Document is in range.  *)
C6_NumbersIn64Bit ==
    /\ \A i \in 1..Len(done) : NumbersInRange(done[i])
    /\ NumbersInRange(result)

IsScalar(v) == v.k \in {"int", "str"}

(* C7: for every successful run the root element has exactly one child per *)
(* Document entry, in order, tagged with the entry's key; the child of a   *)
(* Number or Text has no children and the digits or the string as text.    *)
C7_XmlChildPerEntry ==
    Succeeded =>
        LET root == stdout[1]
            ents == Entries(result)
        IN  /\ root.tag = CONFIG
            /\ Len(root.children) = Len(ents)
            /\ \A i \in 1..Len(ents) :
                  /\ root.children[i].tag = ents[i].key
                  /\ IsScalar(ents[i].val) =>
                        /\ root.children[i].children = <<>>
                        /\ root.children[i].text = <<str(ents[i].val)>>

RECURSIVE RendersValue(_, _)
\* element e holds value v: an array is one child named array with one item
\* child per entry, in order, each holding its entry; a scalar is text
RendersValue(e, v) ==
    IF v.k = "list"
    THEN /\ e.text = None
         /\ Len(e.children) = 1
         /\ e.children[1].tag = ARRAY
         /\ e.children[1].text = None
         /\ Len(e.children[1].children) = Len(v.items)
         /\ \A i \in 1..Len(v.items) :
               /\ e.children[1].children[i].tag = ITEM
               /\ RendersValue(e.children[1].children[i], v.items[i])
    ELSE /\ e.children = <<>>
         /\ e.text = <<str(v)>>

(* C8: the emitter renders every Array value, at any depth, as exactly one *)
(* element named array inside the element holding the value, with one item *)
(* child per entry in order, each rendered by the same rule; an empty      *)
(* array gives an array element without children.                          *)
C8_ArraysRendered ==
    xml_output # None =>
        /\ Len(xml_output[1].children) = Len(result.entries)
        /\ \A i \in 1..Len(result.entries) :
              RendersValue(xml_output[1].children[i], result.entries[i].val)

\* an array holding an empty array and a scalar, in that order, was emitted
C8_Witness ==
    /\ xml_output # None
    /\ Len(result.entries) = 2
    /\ result.entries[1].val = array(<<array(<<>>), number(TokOne)>>)
    /\ Len(xml_output[1].children[1].children[1].children) = 2
    /\ xml_output[1].children[1].children[1].children[1].children
         = <<Element(ARRAY)>>

SomeNameTwice(its) ==
    \E i, j \in 1..Len(its) :
        i < j /\ IsAssign(its[i]) /\ IsAssign(its[j]) /\ its[i].name = its[j].name

(* C9: when some name is defined more than once, the Document holds        *)
(* exactly one entry for it, with the value of its last definition: the    *)
(* Document's entry of every declared name is its entry in the final       *)
(* constant table.                                                         *)
C9_LastDefinitionWins ==
    (result # NoneVal /\ SomeNameTwice(items)) =>
        /\ result.k = "dict"
        /\ \A nm \in DeclaredNames(items) :
              /\ Cardinality({i \in 1..Len(result.entries) : result.entries[i].key = nm}) = 1
              /\ \A i \in 1..Len(result.entries) :
                    result.entries[i].key = nm =>
                        /\ result.entries[i].val = DictGet(constants, nm)
                        /\ result.entries[i].val = done[LastDef(items, nm)].val

\* A is defined twice with different values, with B in between
C9_Witness ==
    /\ Succeeded
    /\ Len(items) = 3
    /\ items[1] = DefNode(NameA, NumNode(TokOne))
    /\ items[2] = DefNode(NameB, StrNode(TokStr))
    /\ items[3] = DefNode(NameA, ArrNode(<<RefNode(NameA), NumNode(TokOne)>>))
    /\ DictKeys(result.entries) = <<NameA, NameB>>
    /\ result.entries[1].val = array(<<number(TokOne), number(TokOne)>>)

(* C10: no declared name equals a synthesized key, so the keys written by  *)
(* assignments and by bare values are disjoint, neither overwrites the     *)
(* other, and the Document has as many entries as there are distinct       *)
(* declared names plus bare values.                                        *)
C10_KeysDisjoint ==
    Succeeded =>
        /\ \A nm \in DeclaredNames(items) :
              \A n \in 0..Len(items) : nm # ItemKey(n)
        /\ Len(Entries(result))
             = Cardinality(DeclaredNames(items)) + BareCount(items, Len(items))

====
